---- MODULE Spec2Model ----
(***************************************************************************)
(* WonderLens Chronicles API (src/main.py, src/schemas.py).                *)
(*                                                                         *)
(* A model of the three handlers that carry logic:                         *)
(*   generate_mantra  POST /api/mantra/generate   (main.py 125-175)        *)
(*   oracle           POST /api/oracle            (main.py 200-236)        *)
(*   upsert_user      POST /api/users/upsert      (main.py 72-94)          *)
(*                                                                         *)
(* A Python str is a sequence of atoms: a provider message is a sequence   *)
(* of one-character atoms, a fixed sentence of the source is a sequence of *)
(* one atom holding the whole sentence, and "" is << >>.  An Optional[str] *)
(* is a record [present, val]; None is NONE.                               *)
(*                                                                         *)
(* Three specifications share the variables:                               *)
(*   Spec       one generation request (mantra or oracle) from receipt to  *)
(*              response, with every provider outcome;                     *)
(*   SpecParse  the mantra message parsing of lines 153-160 on longer      *)
(*              messages;                                                  *)
(*   SpecUsers  concurrent upsert_user requests whose find and write       *)
(*              steps interleave (FastAPI runs sync handlers on a thread   *)
(*              pool).                                                     *)
(***************************************************************************)
EXTENDS Integers, Sequences, FiniteSets, TLC

\* ------------------------------------------------------------------ bounds

\* Longest provider message in Spec.
MaxRespLen == 3

\* Longest provider message in SpecParse.
MaxMsgLen == 5

\* Last calendar day the clock reaches.
MaxDay == 1

\* Number of concurrent upsert_user requests in SpecUsers.
NumWorkers == 2

\* --------------------------------------------------------------- strings

\* The characters of a provider message: a letter, the dash marker, a
\* space and a line break.
Alphabet == {"a", "-", " ", "\n"}

\* What str.strip() with no argument removes (of the alphabet).
Whitespace == {" ", "\n"}

\* The argument of p.strip("- •\n ") at line 155; "*" stands for the
\* bullet U+2022.
MarkerChars == {"-", " ", "*", "\n"}

StringsUpTo(n) == UNION {[1..k -> Alphabet] : k \in 0..n}

NONE == [present |-> FALSE, val |-> << >>]

Some(s) == [present |-> TRUE, val |-> s]

\* Python truthiness of an Optional[str]: None and "" are falsy.
Truthy(o) == o.present /\ o.val # << >>

\* Python's  o or d  on an Optional[str] o and a str d.
OrDefault(o, d) == IF Truthy(o) THEN o.val ELSE d

RECURSIVE LStrip(_, _)
LStrip(s, chars) ==
    IF s = << >> THEN << >>
    ELSE IF Head(s) \in chars THEN LStrip(Tail(s), chars)
    ELSE s

RECURSIVE RStrip(_, _)
RStrip(s, chars) ==
    IF s = << >> THEN << >>
    ELSE IF s[Len(s)] \in chars THEN RStrip(SubSeq(s, 1, Len(s) - 1), chars)
    ELSE s

\* str.strip(chars): leading and trailing characters of chars removed.
StripChars(s, chars) == RStrip(LStrip(s, chars), chars)

\* str.strip()
Strip(s) == StripChars(s, Whitespace)

\* str.split(sep): one more piece than there are separators, empty pieces
\* kept.
RECURSIVE Split(_, _)
Split(s, sep) ==
    IF s = << >> THEN << << >> >>
    ELSE LET rest == Split(Tail(s), sep)
         IN  IF Head(s) = sep
             THEN << << >> >> \o rest
             ELSE << <<Head(s)>> \o Head(rest) >> \o Tail(rest)

\* sep.join(parts)
RECURSIVE Join(_, _)
Join(sep, parts) ==
    IF parts = << >> THEN << >>
    ELSE IF Len(parts) = 1 THEN parts[1]
    ELSE parts[1] \o sep \o Join(sep, Tail(parts))

\* ------------------------------------------------------- fixed sentences

DEFAULT_MEANING == <<"A reminder of your inner divinity and alignment with Ashe.">>

FAILURE_TEXT == <<"I am Divine Flow. Ashe.">>

FAILURE_MEANING == <<"Return to breath and remember: your path is guided by ancestors and inner light.">>

FALLBACK_MEANING == <<"Let this guide your day with grounded presence and ancestral support.">>

ORACLE_SUCCESS_REFS == << <<"Wikipedia: Orishas">>, <<"Wikidata: Kemet symbols">> >>

ORACLE_FAILURE_INTERPRETATION == <<"Your dream reflects a call to balance. Honor breath, pour libation (water), and affirm your worth.">>

ORACLE_FAILURE_REFS == << <<"Proverb: A river that forgets its source will dry up.">> >>

ORACLE_FALLBACK_INTERPRETATION == <<"This symbol speaks of alignment. Practice heart-centered breath and offer gratitude to ancestors.">>

ORACLE_FALLBACK_REFS == << <<"Ashe (vital force)">>, <<"Ngai (divine source)">> >>

\* The f-string of line 169.
MantraTemplate(theme, mood, stage) ==
    <<"I walk in ">> \o theme \o <<", breathing ">> \o mood
        \o <<", embodying ">> \o stage \o <<". Ashe.">>

\* ------------------------------------------------------ request domains

\* MantraRequest (lines 118-122): user_id is required, the other three are
\* Optional[str] and may be omitted (None), empty, or a value.
MantraRequests ==
    [user_id : {<<"u1">>},
     user_mood : {NONE, Some(<< >>), Some(<<"calm">>)},
     user_stage : {NONE, Some(<< >>), Some(<<"Healing">>)},
     recent_journal_theme : {NONE, Some(<< >>), Some(<<"peace">>)}]

\* OracleConsult as a request body (schemas.py 43-47): prompt is a
\* required str (not validated, so it may be empty), user_id is optional.
OracleRequests ==
    [user_id : {NONE, Some(<<"u1">>)},
     prompt : {<< >>, <<"I dreamed of a river">>, <<"I saw a lion">>}]

\* os.getenv("OPENAI_API_KEY"): unset, set to "", or set to a key.
EnvKeys == {NONE, Some(<< >>), Some(<<"sk-key">>)}

Days == 0..MaxDay

\* What the try block of lines 139-153 / 207-225 can meet.  "ok" carries
\* the first choice's message content; every other kind raises inside the
\* try block.
FailureKinds ==
    {"network_error", "timeout", "http_error", "malformed_json",
     "missing_field", "null_content"}

ProviderResults(n) ==
    [kind : {"ok"}, content : StringsUpTo(n)]
        \cup [kind : FailureKinds, content : {<< >>}]

\* The exception each failure raises: requests.post raises ConnectionError
\* or Timeout, raise_for_status raises HTTPError, resp.json() raises a
\* ValueError, the subscripts raise KeyError, None.strip() raises
\* AttributeError.
Raised(kind) ==
    CASE kind = "network_error" -> "ConnectionError"
      [] kind = "timeout" -> "Timeout"
      [] kind = "http_error" -> "HTTPError"
      [] kind = "malformed_json" -> "ValueError"
      [] kind = "missing_field" -> "KeyError"
      [] kind = "null_content" -> "AttributeError"

RequestExceptions == {"ConnectionError", "Timeout", "HTTPError"}

ExceptionClasses == RequestExceptions \cup {"ValueError", "KeyError", "AttributeError"}

\* A handler that caught only the requests library's own exceptions.
ExceptCatchesRequestsOnly(exc) == exc \in RequestExceptions

\* except Exception (lines 161, 227): every exception class above derives
\* from Exception.
ExceptCatches(exc) == exc \in ExceptionClasses

\* A guard that tests the credential against None instead of truthiness.
ProviderEnabledIfSet(key) == key.present

\* if openai_key: (lines 138, 206)
ProviderEnabled(key) == Truthy(key)

\* ------------------------------------------------------ mantra generation

\* Line 155: the lines of msg that are not all whitespace, each then
\* stripped of the marker characters at both ends.
MantraParts(msg) ==
    LET lines == Split(msg, "\n")
        kept == SelectSeq(lines, LAMBDA p : Strip(p) # << >>)
    IN  [i \in 1..Len(kept) |-> StripChars(kept[i], MarkerChars)]

\* Lines 153-160 on the message content raw.
ParseMantra(raw) ==
    LET msg == Strip(raw)
        parts == MantraParts(msg)
    IN  IF Len(parts) >= 2
        THEN [text |-> parts[1], meaning |-> Join(<<" ">>, Tail(parts))]
        ELSE [text |-> msg, meaning |-> DEFAULT_MEANING]

\* An except branch that reuses the success branch's default meaning.
MantraFailureWrongMeaning == [text |-> FAILURE_TEXT, meaning |-> DEFAULT_MEANING]

\* Lines 162-163.
MantraFailure == [text |-> FAILURE_TEXT, meaning |-> FAILURE_MEANING]

\* A fallback that substitutes the raw fields, without their defaults.
MantraFallbackNoDefaults(r) ==
    [text |-> MantraTemplate(r.recent_journal_theme.val, r.user_mood.val,
                             r.user_stage.val),
     meaning |-> FALLBACK_MEANING]

\* Lines 166-170.
MantraFallback(r) ==
    LET mood == OrDefault(r.user_mood, <<"centered">>)
        stage == OrDefault(r.user_stage, <<"Awakening">>)
        theme == OrDefault(r.recent_journal_theme, <<"clarity">>)
    IN  [text |-> MantraTemplate(theme, mood, stage),
         meaning |-> FALLBACK_MEANING]

\* A document built without its meaning.
MantraDocNoMeaning(r, tx, mn, day) ==
    [user_id |-> r.user_id, text |-> tx, meaning |-> NONE,
     stage |-> r.user_stage, mood |-> r.user_mood,
     journal_theme |-> r.recent_journal_theme, date |-> day]

\* Line 173: Mantra(user_id=..., text=text, meaning=meaning, ...).
MantraDoc(r, tx, mn, day) ==
    [user_id |-> r.user_id, text |-> tx, meaning |-> mn,
     stage |-> r.user_stage, mood |-> r.user_mood,
     journal_theme |-> r.recent_journal_theme, date |-> day]

\* ------------------------------------------------------ oracle generation

\* A success branch that keeps the message as received.
OracleSuccessUnstripped(raw) ==
    [interpretation |-> raw, references |-> ORACLE_SUCCESS_REFS]

\* Lines 225-226.
OracleSuccess(raw) ==
    [interpretation |-> Strip(raw), references |-> ORACLE_SUCCESS_REFS]

\* Lines 228-229.
OracleFailure ==
    [interpretation |-> ORACLE_FAILURE_INTERPRETATION,
     references |-> ORACLE_FAILURE_REFS]

\* An else branch that answers with the except branch's content.
OracleFallbackAsFailure == OracleFailure

\* Lines 231-232.
OracleFallback ==
    [interpretation |-> ORACLE_FALLBACK_INTERPRETATION,
     references |-> ORACLE_FALLBACK_REFS]

\* Line 234: OracleConsult(user_id=..., prompt=..., interpretation=...,
\* references=refs).
OracleDoc(c, interp, rs) ==
    [user_id |-> c.user_id, prompt |-> c.prompt, interpretation |-> interp,
     references |-> rs]

\* -------------------------------------------------------- document store

\* database.create_document(collection, data): the document is inserted
\* into the collection under a fresh identifier, which is returned.
create_document(store, collection, data, id) ==
    [store EXCEPT ![collection] = Append(@, [id |-> id, data |-> data])]

EmptyStore == [mantra |-> << >>, oracleconsult |-> << >>, user |-> << >>]

\* ----------------------------------------------------------------- state

VARIABLES
    env_key,         \* the process environment's OPENAI_API_KEY
    clock,           \* the calendar day date.today() returns
    db,              \* the document store: collection name -> documents
    nextId,          \* the next identifier the store hands out
    pc,              \* where the generation request stands
    endpoint,        \* "mantra" or "oracle" once a request is received
    req,             \* the request body
    openai_key,      \* the handler's local openai_key
    outcome,         \* what the provider call met, NoCall before it
    calls,           \* outbound provider calls this request has issued
    text,            \* generate_mantra's local text
    meaning,         \* generate_mantra's local meaning
    interpretation,  \* oracle's local interpretation
    refs,            \* oracle's local refs
    today,           \* generate_mantra's local today
    doc_id,          \* the identifier create_document returned
    response,        \* the HTTP response
    upc,             \* per worker: where its upsert_user request stands
    ureq,            \* per worker: its UpsertUserRequest
    existing,        \* per worker: what find_one returned
    uresponse        \* per worker: the HTTP response

genVars ==
    <<env_key, clock, db, nextId, pc, endpoint, req, openai_key, outcome,
      calls, text, meaning, interpretation, refs, today, doc_id, response>>

userVars == <<upc, ureq, existing, uresponse>>

vars == <<genVars, userVars>>

Workers == 1..NumWorkers

NoCall == [kind |-> "none", content |-> << >>]

NoRequest == [user_id |-> NONE]

NoResponse == [status |-> 0]

\* What find_one returns when no document matches (None).
NotFound == [found |-> FALSE, id |-> 0]

\* Everything a generation request has not touched yet.
GenIdle ==
    /\ clock = 0
    /\ db = EmptyStore
    /\ nextId = 1
    /\ endpoint = "none"
    /\ req = NoRequest
    /\ openai_key = NONE
    /\ outcome = NoCall
    /\ calls = 0
    /\ text = NONE
    /\ meaning = NONE
    /\ interpretation = NONE
    /\ refs = << >>
    /\ today = 0
    /\ doc_id = 0
    /\ response = NoResponse

UsersIdle ==
    /\ upc = [w \in Workers |-> "idle"]
    /\ ureq = [w \in Workers |-> NoRequest]
    /\ existing = [w \in Workers |-> NotFound]
    /\ uresponse = [w \in Workers |-> NoResponse]

Init ==
    /\ env_key \in EnvKeys
    /\ pc = "idle"
    /\ GenIdle
    /\ UsersIdle

\* ---------------------------------------------------- generate_mantra

\* Lines 126-136: the request arrives, the credential is read from the
\* environment, text and meaning start as None.
generate_mantra_receive ==
    /\ pc = "idle"
    /\ \E r \in MantraRequests : req' = r
    /\ endpoint' = "mantra"
    /\ openai_key' = env_key
    /\ text' = NONE
    /\ meaning' = NONE
    /\ pc' = "m_generate"
    /\ UNCHANGED <<env_key, clock, db, nextId, outcome, calls, interpretation,
                   refs, today, doc_id, response, userVars>>

\* Lines 138-163: one requests.post; its message is parsed, or the
\* exception it raises is handled by the except branch.
MantraProviderStep(result) ==
    /\ calls' = calls + 1
    /\ outcome' = result
    /\ IF result.kind = "ok"
       THEN /\ text' = Some(ParseMantra(result.content).text)
            /\ meaning' = Some(ParseMantra(result.content).meaning)
            /\ pc' = "m_today"
            /\ UNCHANGED response
       ELSE IF ExceptCatches(Raised(result.kind))
       THEN /\ text' = Some(MantraFailure.text)
            /\ meaning' = Some(MantraFailure.meaning)
            /\ pc' = "m_today"
            /\ UNCHANGED response
       ELSE /\ pc' = "error"
            /\ response' = [status |-> 500]
            /\ UNCHANGED <<text, meaning>>

generate_mantra_provider ==
    /\ pc = "m_generate"
    /\ ProviderEnabled(openai_key)
    /\ \E result \in ProviderResults(MaxRespLen) : MantraProviderStep(result)
    /\ UNCHANGED <<env_key, clock, db, nextId, endpoint, req, openai_key,
                   interpretation, refs, today, doc_id, userVars>>

\* Lines 164-170: no credential, no call.
generate_mantra_fallback ==
    /\ pc = "m_generate"
    /\ ~ProviderEnabled(openai_key)
    /\ text' = Some(MantraFallback(req).text)
    /\ meaning' = Some(MantraFallback(req).meaning)
    /\ pc' = "m_today"
    /\ UNCHANGED <<env_key, clock, db, nextId, endpoint, req, openai_key,
                   outcome, calls, interpretation, refs, today, doc_id,
                   response, userVars>>

\* Line 172: today = date.today().isoformat()
generate_mantra_today ==
    /\ pc = "m_today"
    /\ today' = clock
    /\ pc' = "m_create"
    /\ UNCHANGED <<env_key, clock, db, nextId, endpoint, req, openai_key,
                   outcome, calls, text, meaning, interpretation, refs,
                   doc_id, response, userVars>>

\* Lines 173-174: the document is built and created.
generate_mantra_create ==
    /\ pc = "m_create"
    /\ db' = create_document(db, "mantra", MantraDoc(req, text, meaning, today),
                             nextId)
    /\ doc_id' = nextId
    /\ nextId' = nextId + 1
    /\ pc' = "m_return"
    /\ UNCHANGED <<env_key, clock, endpoint, req, openai_key, outcome, calls,
                   text, meaning, interpretation, refs, today, response,
                   userVars>>

\* Line 175.
generate_mantra_return ==
    /\ pc = "m_return"
    /\ response' = [status |-> 200, id |-> doc_id, date |-> today,
                    text |-> text, meaning |-> meaning]
    /\ pc' = "done"
    /\ UNCHANGED <<env_key, clock, db, nextId, endpoint, req, openai_key,
                   outcome, calls, text, meaning, interpretation, refs, today,
                   doc_id, userVars>>

\* ------------------------------------------------------------- oracle

\* Lines 201-204.
oracle_receive ==
    /\ pc = "idle"
    /\ \E c \in OracleRequests : req' = c
    /\ endpoint' = "oracle"
    /\ openai_key' = env_key
    /\ interpretation' = NONE
    /\ refs' = << >>
    /\ pc' = "o_generate"
    /\ UNCHANGED <<env_key, clock, db, nextId, outcome, calls, text, meaning,
                   today, doc_id, response, userVars>>

\* Lines 206-229.
OracleProviderStep(result) ==
    /\ calls' = calls + 1
    /\ outcome' = result
    /\ IF result.kind = "ok"
       THEN /\ interpretation' = Some(OracleSuccess(result.content).interpretation)
            /\ refs' = OracleSuccess(result.content).references
            /\ pc' = "o_create"
            /\ UNCHANGED response
       ELSE IF ExceptCatches(Raised(result.kind))
       THEN /\ interpretation' = Some(OracleFailure.interpretation)
            /\ refs' = OracleFailure.references
            /\ pc' = "o_create"
            /\ UNCHANGED response
       ELSE /\ pc' = "error"
            /\ response' = [status |-> 500]
            /\ UNCHANGED <<interpretation, refs>>

oracle_provider ==
    /\ pc = "o_generate"
    /\ ProviderEnabled(openai_key)
    /\ \E result \in ProviderResults(MaxRespLen) : OracleProviderStep(result)
    /\ UNCHANGED <<env_key, clock, db, nextId, endpoint, req, openai_key,
                   text, meaning, today, doc_id, userVars>>

\* Lines 230-232.
oracle_fallback ==
    /\ pc = "o_generate"
    /\ ~ProviderEnabled(openai_key)
    /\ interpretation' = Some(OracleFallback.interpretation)
    /\ refs' = OracleFallback.references
    /\ pc' = "o_create"
    /\ UNCHANGED <<env_key, clock, db, nextId, endpoint, req, openai_key,
                   outcome, calls, text, meaning, today, doc_id, response,
                   userVars>>

\* Lines 234-235.
oracle_create ==
    /\ pc = "o_create"
    /\ db' = create_document(db, "oracleconsult",
                             OracleDoc(req, interpretation, refs), nextId)
    /\ doc_id' = nextId
    /\ nextId' = nextId + 1
    /\ pc' = "o_return"
    /\ UNCHANGED <<env_key, clock, endpoint, req, openai_key, outcome, calls,
                   text, meaning, interpretation, refs, today, response,
                   userVars>>

\* Line 236.
oracle_return ==
    /\ pc = "o_return"
    /\ response' = [status |-> 200, id |-> doc_id,
                    interpretation |-> interpretation, references |-> refs]
    /\ pc' = "done"
    /\ UNCHANGED <<env_key, clock, db, nextId, endpoint, req, openai_key,
                   outcome, calls, text, meaning, interpretation, refs, today,
                   doc_id, userVars>>

\* Midnight passes while a request is in progress.
Tick ==
    /\ clock < MaxDay
    /\ pc \notin {"idle", "done", "error"}
    /\ clock' = clock + 1
    /\ UNCHANGED <<env_key, db, nextId, pc, endpoint, req, openai_key, outcome,
                   calls, text, meaning, interpretation, refs, today, doc_id,
                   response, userVars>>

Next ==
    \/ generate_mantra_receive
    \/ generate_mantra_provider
    \/ generate_mantra_fallback
    \/ generate_mantra_today
    \/ generate_mantra_create
    \/ generate_mantra_return
    \/ oracle_receive
    \/ oracle_provider
    \/ oracle_fallback
    \/ oracle_create
    \/ oracle_return
    \/ Tick

Spec == Init /\ [][Next]_vars

\* ------------------------------------------------- mantra parsing alone

\* A mantra request whose credential is set stands before its provider
\* call.
InitParse ==
    /\ env_key = Some(<<"sk-key">>)
    /\ pc = "m_generate"
    /\ clock = 0
    /\ db = EmptyStore
    /\ nextId = 1
    /\ endpoint = "mantra"
    /\ req = [user_id |-> <<"u1">>, user_mood |-> NONE, user_stage |-> NONE,
              recent_journal_theme |-> NONE]
    /\ openai_key = env_key
    /\ outcome = NoCall
    /\ calls = 0
    /\ text = NONE
    /\ meaning = NONE
    /\ interpretation = NONE
    /\ refs = << >>
    /\ today = 0
    /\ doc_id = 0
    /\ response = NoResponse
    /\ UsersIdle

\* Lines 138-163 again, on messages of up to MaxMsgLen characters.
parse_mantra_provider ==
    /\ pc = "m_generate"
    /\ ProviderEnabled(openai_key)
    /\ \E result \in ProviderResults(MaxMsgLen) : MantraProviderStep(result)
    /\ UNCHANGED <<env_key, clock, db, nextId, endpoint, req, openai_key,
                   interpretation, refs, today, doc_id, userVars>>

NextParse == parse_mantra_provider

SpecParse == InitParse /\ [][NextParse]_vars

\* ---------------------------------------------------------- upsert_user

Emails == {<<"a@x.org">>, <<"b@x.org">>}

\* UpsertUserRequest (lines 63-69); auth_provider, auth_uid and locale are
\* left at their defaults.
UpsertUserRequests ==
    [display_name : {<<"Ama">>, <<"Kofi">>},
     email : Emails,
     stage : {NONE, Some(<<"Healing">>)}]

\* Lines 79-86: User(...).model_dump().
UserData(payload) ==
    [display_name |-> payload.display_name,
     email |-> payload.email,
     auth_provider |-> <<"anonymous">>,
     auth_uid |-> NONE,
     stage |-> OrDefault(payload.stage, <<"Awakening">>),
     locale |-> <<"en">>,
     avatar_url |-> NONE,
     premium_tier |-> <<"free">>]

\* db.user.find_one({"email": email}): the first document with that email,
\* or None.
find_one(users, email) ==
    LET hits == {i \in 1..Len(users) : users[i].data.email = email}
    IN  IF hits = {} THEN NotFound
        ELSE [found |-> TRUE,
              id |-> users[CHOOSE i \in hits : \A j \in hits : i <= j].id]

\* db.user.update_one({"_id": id}, {"$set": data}): every field of data is
\* written onto the document with that identifier.
update_one(users, id, data) ==
    [i \in 1..Len(users) |->
        IF users[i].id = id THEN [id |-> id, data |-> data] ELSE users[i]]

\* Line 73: the request arrives.
upsert_user_receive(w) ==
    /\ upc[w] = "idle"
    /\ \E payload \in UpsertUserRequests : ureq' = [ureq EXCEPT ![w] = payload]
    /\ upc' = [upc EXCEPT ![w] = "find"]
    /\ UNCHANGED <<genVars, existing, uresponse>>

\* Line 78.
upsert_user_find(w) ==
    /\ upc[w] = "find"
    /\ existing' = [existing EXCEPT ![w] = find_one(db.user, ureq[w].email)]
    /\ upc' = [upc EXCEPT ![w] = "write"]
    /\ UNCHANGED <<genVars, ureq, uresponse>>

\* Lines 88-90 and 94: a document was found, it is updated.
upsert_user_update(w) ==
    /\ upc[w] = "write"
    /\ existing[w].found
    /\ db' = [db EXCEPT !.user = update_one(@, existing[w].id, UserData(ureq[w]))]
    /\ uresponse' = [uresponse EXCEPT ![w] =
                        [status |-> 200, user_id |-> existing[w].id,
                         stage |-> UserData(ureq[w]).stage]]
    /\ upc' = [upc EXCEPT ![w] = "done"]
    /\ UNCHANGED <<env_key, clock, nextId, pc, endpoint, req, openai_key,
                   outcome, calls, text, meaning, interpretation, refs, today,
                   doc_id, response, ureq, existing>>

\* Lines 91-92 and 94: none was found, one is created.
upsert_user_insert(w) ==
    /\ upc[w] = "write"
    /\ ~existing[w].found
    /\ db' = create_document(db, "user", UserData(ureq[w]), nextId)
    /\ nextId' = nextId + 1
    /\ uresponse' = [uresponse EXCEPT ![w] =
                        [status |-> 200, user_id |-> nextId,
                         stage |-> UserData(ureq[w]).stage]]
    /\ upc' = [upc EXCEPT ![w] = "done"]
    /\ UNCHANGED <<env_key, clock, pc, endpoint, req, openai_key, outcome,
                   calls, text, meaning, interpretation, refs, today, doc_id,
                   response, ureq, existing>>

InitUsers ==
    /\ env_key = NONE
    /\ pc = "idle"
    /\ GenIdle
    /\ UsersIdle

NextUsers ==
    \E w \in Workers :
        \/ upsert_user_receive(w)
        \/ upsert_user_find(w)
        \/ upsert_user_update(w)
        \/ upsert_user_insert(w)

SpecUsers == InitUsers /\ [][NextUsers]_vars

\* ------------------------------------------------------------- claims

\* The request has its response.
Completed(e) == pc = "done" /\ endpoint = e

\* The provider call of this request failed.
CallFailed == outcome.kind \in FailureKinds

\* The provider call of this request succeeded.
CallSucceeded == outcome.kind = "ok"

\* A credential is configured: the variable is set and not empty.
CredentialConfigured == openai_key.present /\ Len(openai_key.val) > 0

\* An Optional[str] that holds a str of at least one character.
NonEmptyStr(o) == o.present /\ Len(o.val) > 0

\* sub occurs in s as a substring.
Contains(s, sub) ==
    \E i \in 0..(Len(s) - Len(sub)) : SubSeq(s, i + 1, i + Len(sub)) = sub

\* t is raw without its leading and trailing whitespace.
IsTrimOf(t, raw) ==
    /\ \E i \in 0..Len(raw) :
        /\ i + Len(t) <= Len(raw)
        /\ SubSeq(raw, i + 1, i + Len(t)) = t
        /\ \A k \in 1..i : raw[k] \in Whitespace
        /\ \A k \in (i + Len(t) + 1)..Len(raw) : raw[k] \in Whitespace
    /\ t # << >> => t[1] \notin Whitespace /\ t[Len(t)] \notin Whitespace

\* The value the claim C4 substitutes: the supplied one, the default when
\* the field is omitted.
SuppliedOr(o, d) == IF o.present THEN o.val ELSE d

\* The value the code substitutes: the default also for an empty field.
SuppliedNonEmptyOr(o, d) == IF o.present /\ Len(o.val) > 0 THEN o.val ELSE d

C2_ContentNeverEmpty ==
    /\ Completed("mantra") =>
        /\ NonEmptyStr(response.text)
        /\ NonEmptyStr(response.meaning)
        /\ (CallSucceeded /\ outcome.content = << >>) =>
                response.text = Some(FAILURE_TEXT)
    /\ Completed("oracle") =>
        /\ NonEmptyStr(response.interpretation)
        /\ Len(response.references) >= 0

\* C3: whatever the provider call meets, generation ends with content and
\* the request with a 200 response; no exception of the call leaves the
\* handler.
C3_NoProviderErrorEscapes ==
    /\ pc # "error"
    /\ response.status # 500
    /\ outcome # NoCall =>
        /\ pc \in {"m_today", "m_create", "m_return", "o_create", "o_return", "done"}
        /\ endpoint = "mantra" => text.present /\ meaning.present
        /\ endpoint = "oracle" => interpretation.present
    /\ pc = "done" => response.status = 200

\* C3 witness: a request whose provider answered with malformed JSON has
\* been answered with content.
C3_Witness ==
    /\ pc = "done"
    /\ outcome.kind = "malformed_json"
    /\ response.status = 200

\* C4 as stated: with no credential, text is the template filled with each
\* supplied value, the default standing in only for an omitted field.
C4_FallbackUsesSuppliedValues ==
    Completed("mantra") /\ ~CredentialConfigured =>
        /\ response.text =
             Some(MantraTemplate(SuppliedOr(req.recent_journal_theme, <<"clarity">>),
                                 SuppliedOr(req.user_mood, <<"centered">>),
                                 SuppliedOr(req.user_stage, <<"Awakening">>)))
        /\ response.meaning = Some(FALLBACK_MEANING)

\* C4 amended: with no credential, text is "I walk in {theme}, breathing
\* {mood}, embodying {stage}. Ashe." where each field is the supplied
\* value, or its default when the field is omitted or empty; meaning is
\* the fixed sentence; so text contains the three values and none is
\* blank.
C4_FallbackUsesNonEmptyValuesOrDefaults ==
    Completed("mantra") /\ ~CredentialConfigured =>
        LET theme == SuppliedNonEmptyOr(req.recent_journal_theme, <<"clarity">>)
            mood == SuppliedNonEmptyOr(req.user_mood, <<"centered">>)
            stage == SuppliedNonEmptyOr(req.user_stage, <<"Awakening">>)
        IN  /\ response.text =
                 Some(<<"I walk in ">> \o theme \o <<", breathing ">> \o mood
                        \o <<", embodying ">> \o stage \o <<". Ashe.">>)
            /\ response.meaning =
                 Some(<<"Let this guide your day with grounded presence and ancestral support.">>)
            /\ theme # << >> /\ mood # << >> /\ stage # << >>
            /\ Contains(response.text.val, theme)
            /\ Contains(response.text.val, mood)
            /\ Contains(response.text.val, stage)
            /\ calls = 0

\* C4 witness: a request that supplies a mood, omits the stage and sends
\* an empty theme has been answered with no credential configured.
C4_Witness ==
    /\ Completed("mantra")
    /\ ~CredentialConfigured
    /\ req.user_mood = Some(<<"calm">>)
    /\ req.user_stage = NONE
    /\ req.recent_journal_theme = Some(<< >>)
    /\ response.text.val =
         <<"I walk in ", "clarity", ", breathing ", "calm", ", embodying ",
           "Awakening", ". Ashe.">>

\* C5: with no credential, whatever the prompt and user_id, interpretation
\* is one fixed non-empty sentence and references is the list
\* ["Ashe (vital force)", "Ngai (divine source)"].
C5_OracleFallbackIsFixed ==
    Completed("oracle") /\ ~CredentialConfigured =>
        /\ response.interpretation =
             Some(<<"This symbol speaks of alignment. Practice heart-centered breath and offer gratitude to ancestors.">>)
        /\ NonEmptyStr(response.interpretation)
        /\ response.references =
             << <<"Ashe (vital force)">>, <<"Ngai (divine source)">> >>
        /\ calls = 0

\* C5 witness: the prompt "I dreamed of a river" has been answered with no
\* credential configured.
C5_Witness ==
    /\ Completed("oracle")
    /\ ~CredentialConfigured
    /\ req.prompt = <<"I dreamed of a river">>
    /\ response.status = 200

\* The lines the claim C6 describes: every line stripped of markers and
\* whitespace, the empty ones dropped.
ClaimedLines(msg) ==
    LET lines == Split(msg, "\n")
        stripped == [i \in 1..Len(lines) |-> StripChars(lines[i], MarkerChars)]
    IN  SelectSeq(stripped, LAMBDA p : p # << >>)

\* C6 as stated: on success the message is split into its non-empty
\* trimmed lines after the markers are stripped, so no line is empty; with
\* two lines or more text is the first and meaning the others joined by
\* single spaces, otherwise text is the whole message and meaning the
\* default sentence.
C6_SplitIntoNonEmptyLines ==
    (pc = "m_today" /\ CallSucceeded) =>
        LET msg == Strip(outcome.content)
            lines == ClaimedLines(msg)
        IN  /\ \A i \in 1..Len(MantraParts(msg)) : MantraParts(msg)[i] # << >>
            /\ IF Len(lines) >= 2
               THEN /\ text = Some(lines[1])
                    /\ meaning = Some(Join(<<" ">>, Tail(lines)))
               ELSE /\ text = Some(msg)
                    /\ meaning = Some(DEFAULT_MEANING)

\* C7: when the provider call succeeds, interpretation is the whole first
\* message without its leading and trailing whitespace, and references is
\* one fixed pair, whatever the prompt and the message.
C7_OracleSuccessIsTrimmedMessage ==
    Completed("oracle") /\ CallSucceeded =>
        /\ CredentialConfigured
        /\ response.interpretation.present
        /\ IsTrimOf(response.interpretation.val, outcome.content)
        /\ response.references =
             << <<"Wikipedia: Orishas">>, <<"Wikidata: Kemet symbols">> >>

\* C7 witness: a message with whitespace around it has been returned
\* trimmed.
C7_Witness ==
    /\ Completed("oracle")
    /\ outcome = [kind |-> "ok", content |-> <<" ", "a", "\n">>]
    /\ response.interpretation = Some(<<"a">>)

\* C8: a request issues at most one provider call: exactly one once
\* generation is over when a credential is configured, whether the call
\* succeeded or failed, and none when no credential is configured.
C8_AtMostOneProviderCall ==
    /\ calls <= 1
    /\ pc \in {"idle", "m_generate", "o_generate"} => calls = 0
    /\ pc \in {"m_today", "m_create", "m_return", "o_create", "o_return", "done"} =>
          calls = IF CredentialConfigured THEN 1 ELSE 0
    /\ calls = 0 <=> outcome = NoCall

\* C8 witness: a request whose one call failed has been answered without
\* a second call.
C8_Witness ==
    /\ pc = "done"
    /\ CallFailed
    /\ calls = 1

\* C9: a completed request has created exactly one document of its
\* collection, holding the content, date and identifier of the response;
\* no document exists before the content is determined.
C9_OneDocumentPerRequest ==
    /\ pc \in {"idle", "m_generate", "m_today", "m_create", "o_generate", "o_create"} =>
          db.mantra = << >> /\ db.oracleconsult = << >>
    /\ Completed("mantra") =>
        /\ Len(db.mantra) = 1
        /\ db.oracleconsult = << >>
        /\ db.mantra[1].id = response.id
        /\ db.mantra[1].data.text = response.text
        /\ db.mantra[1].data.meaning = response.meaning
        /\ db.mantra[1].data.date = response.date
    /\ Completed("oracle") =>
        /\ Len(db.oracleconsult) = 1
        /\ db.mantra = << >>
        /\ db.oracleconsult[1].id = response.id
        /\ db.oracleconsult[1].data.interpretation = response.interpretation
        /\ db.oracleconsult[1].data.references = response.references

\* C9 witness: a mantra generated by the provider on day 0 has been stored
\* and returned after midnight.
C9_Witness ==
    /\ Completed("mantra")
    /\ CallSucceeded
    /\ clock = 1
    /\ response.date = 0
    /\ Len(db.mantra) = 1

\* C10 as stated: the user collection holds at most one document per
\* email address.
C10_OneUserPerEmail ==
    \A i, j \in 1..Len(db.user) :
        db.user[i].data.email = db.user[j].data.email => i = j

====
